---- MODULE Spec2Model ----
(***************************************************************************)
(* Model of examples/hatchdemo/src/hatchdemo/hello.c: a CPython extension  *)
(* module "hello" with one METH_NOARGS function hello() that returns       *)
(* PyUnicode_FromString("Hello World!"), and its initialiser PyInit_hello. *)
(* The host (interpreter) side that the file relies on is modelled as far  *)
(* as the file uses it: module creation from the PyModuleDef, dispatch of  *)
(* a METH_NOARGS method, object allocation with reference counts, and the  *)
(* per-thread error indicator.                                             *)
(***************************************************************************)
EXTENDS Integers, Sequences, FiniteSets, TLC

\* ---- bounds of the model ------------------------------------------------
NCallers == 2
MaxCalls == 2
MaxInits == 2
MaxObjects == 2
MaxArgs == 1

Callers == 1..NCallers
ObjIds == 1..MaxObjects

\* ---- C level constants --------------------------------------------------
\* a NULL C pointer (char*, PyCFunction, PyObject* parameters)
NULL == "NULL"
\* METH_NOARGS of the CPython method flags
METH_NOARGS == 4
\* PyModuleDef_HEAD_INIT: m_base with m_index 0 (not yet registered)
PyModuleDef_HEAD_INIT == [m_index |-> 0]

\* the C string literal "Hello World!" of hello(): its bytes and the NUL
HelloLiteral == <<72, 101, 108, 108, 111, 32, 87, 111, 114, 108, 100, 33, 0>>

\* variant of the method table: hello registered as METH_VARARGS (flag 1)
HelloMethodsVarargs ==
    << [ml_name |-> "hello", ml_meth |-> "hello", ml_flags |-> 1,
        ml_doc |-> "Returns a greeting."],
       [ml_name |-> NULL, ml_meth |-> NULL, ml_flags |-> 0, ml_doc |-> NULL] >>

\* static PyMethodDef HelloMethods[]
HelloMethodsInit ==
    << [ml_name |-> "hello", ml_meth |-> "hello", ml_flags |-> METH_NOARGS,
        ml_doc |-> "Returns a greeting."],
       [ml_name |-> NULL, ml_meth |-> NULL, ml_flags |-> 0, ml_doc |-> NULL] >>

\* static struct PyModuleDef hellomodule
hellomoduleInit ==
    [m_base |-> PyModuleDef_HEAD_INIT, m_name |-> "hello", m_doc |-> NULL,
     m_size |-> -1, m_methods |-> "HelloMethods"]

VARIABLES
    HelloMethods,   \* the method table (module-level static)
    hellomodule,    \* the module definition (module-level static)
    module,         \* the module object the host holds for "hello", or NoModule
    created,        \* result of the last PyModule_Create
    initRet,        \* value the last PyInit_hello returned
    nInits,         \* number of PyInit_hello calls made
    pc,             \* per caller: position of its invocation
    nargs,          \* per caller: number of arguments it handed to the host
    self,           \* per caller: the self parameter the body received
    args,           \* per caller: the args parameter the body received
    res,            \* per caller: result of PyUnicode_FromString (0 = NULL)
    ret,            \* per caller: value hello() returned to the host (0 = NULL)
    err,            \* per caller (thread): the error indicator
    hist,           \* per caller: outcomes of its completed calls, in order
    heap            \* object id -> [ob_refcnt, data]

globals == <<HelloMethods, hellomodule>>
hostvars == <<module, created, initRet, nInits>>
callvars == <<pc, nargs, self, args, res, ret, err, hist, heap>>
vars == <<HelloMethods, hellomodule, module, created, initRet, nInits,
          pc, nargs, self, args, res, ret, err, hist, heap>>

\* ---- C strings and UTF-8 ------------------------------------------------
\* strlen: number of bytes before the first NUL
strlen(s) == (CHOOSE i \in 1..Len(s) : s[i] = 0 /\ \A j \in 1..(i-1) : s[j] # 0) - 1

IsCont(b, i) == i <= Len(b) /\ b[i] \in 128..191

\* strict UTF-8 decoding of a byte sequence into code points
RECURSIVE DecodeFrom(_, _, _)
DecodeFrom(b, i, acc) ==
    IF i > Len(b) THEN [ok |-> TRUE, cps |-> acc]
    ELSE LET c == b[i] IN
      IF c < 128 THEN DecodeFrom(b, i + 1, Append(acc, c))
      ELSE IF c \in 194..223 /\ IsCont(b, i + 1)
        THEN DecodeFrom(b, i + 2, Append(acc, (c - 192) * 64 + (b[i+1] - 128)))
      ELSE IF c \in 224..239 /\ IsCont(b, i + 1) /\ IsCont(b, i + 2)
        THEN LET cp == (c - 224) * 4096 + (b[i+1] - 128) * 64 + (b[i+2] - 128) IN
             IF cp >= 2048 /\ cp \notin 55296..57343
             THEN DecodeFrom(b, i + 3, Append(acc, cp))
             ELSE [ok |-> FALSE, cps |-> <<>>]
      ELSE IF c \in 240..244 /\ IsCont(b, i + 1) /\ IsCont(b, i + 2) /\ IsCont(b, i + 3)
        THEN LET cp == (c - 240) * 262144 + (b[i+1] - 128) * 4096
                       + (b[i+2] - 128) * 64 + (b[i+3] - 128) IN
             IF cp \in 65536..1114111
             THEN DecodeFrom(b, i + 4, Append(acc, cp))
             ELSE [ok |-> FALSE, cps |-> <<>>]
      ELSE [ok |-> FALSE, cps |-> <<>>]

\* what PyUnicode_FromString makes of a NUL-terminated C string
DecodeUTF8(s) == DecodeFrom(SubSeq(s, 1, strlen(s)), 1, <<>>)

\* ---- host: objects ------------------------------------------------------
\* a free heap cell / a freshly allocated str object awaiting its characters
FreeCell == [ob_refcnt |-> 0, data |-> <<>>]
NewCell == [ob_refcnt |-> 1, data |-> <<>>]
FreeIds == {i \in ObjIds : heap[i].ob_refcnt = 0}

\* Py_DECREF: drop one reference, deallocate on zero
Py_DECREF(h, id) ==
    IF h[id].ob_refcnt <= 1 THEN [h EXCEPT ![id] = FreeCell]
    ELSE [h EXCEPT ![id].ob_refcnt = @ - 1]

\* ---- host: module creation ----------------------------------------------
NoModule == [md_name |-> NULL, md_def |-> NULL, functions |-> <<>>]

\* the functions a module gets from a method table: the entries before the
\* {NULL, NULL, 0, NULL} sentinel
RECURSIVE AddFunctions(_, _)
AddFunctions(table, i) ==
    IF i > Len(table) \/ table[i].ml_name = NULL THEN <<>>
    ELSE <<table[i]>> \o AddFunctions(table, i + 1)

\* the method table a PyModuleDef's m_methods points at
Deref(p) == IF p = "HelloMethods" THEN HelloMethods ELSE <<>>

\* PyModule_Create(def): registers the definition on first use (m_base gets
\* its index), then builds the module object, or fails with NULL
PyModule_Create(def, ok) ==
    LET d == IF def.m_base.m_index = 0
             THEN [def EXCEPT !.m_base = [m_index |-> 1]] ELSE def
    IN [def |-> d,
        m |-> IF ok
              THEN [md_name |-> d.m_name, md_def |-> "hellomodule",
                    functions |-> AddFunctions(Deref(d.m_methods), 1)]
              ELSE NoModule]

\* variant of PyInit_hello: when creation fails it returns the module of an
\* earlier initialisation instead of NULL
PyInit_hello_fallback ==
    /\ nInits < MaxInits
    /\ \E ok \in BOOLEAN :
         LET r == PyModule_Create(hellomodule, ok) IN
         /\ hellomodule' = r.def
         /\ created' = r.m
         /\ initRet' = IF r.m # NoModule THEN r.m ELSE module
         /\ module' = IF r.m # NoModule THEN r.m ELSE module
    /\ nInits' = nInits + 1
    /\ UNCHANGED <<HelloMethods, callvars>>

\* PyMODINIT_FUNC PyInit_hello(void) { return PyModule_Create(&hellomodule); }
\* The host keeps the module it was handed when that is not NULL.
PyInit_hello ==
    /\ nInits < MaxInits
    /\ \E ok \in BOOLEAN :
         LET r == PyModule_Create(hellomodule, ok) IN
         /\ hellomodule' = r.def
         /\ created' = r.m
         /\ initRet' = r.m
         /\ module' = IF r.m # NoModule THEN r.m ELSE module
    /\ nInits' = nInits + 1
    /\ UNCHANGED <<HelloMethods, callvars>>

\* ---- host: calling a module function ------------------------------------
RECURSIVE SumLen(_)
SumLen(S) ==
    IF S = {} THEN 0
    ELSE LET c == CHOOSE x \in S : TRUE IN
         Len(hist[c]) + (IF pc[c] = "ready" THEN 0 ELSE 1) + SumLen(S \ {c})
\* calls started so far, completed or in flight
TotalCalls == SumLen(Callers)

\* the method entries of module m that carry the name n
Lookup(m, n) == {i \in 1..Len(m.functions) : m.functions[i].ml_name = n}

ArgTuple(n) == IF n = 0 THEN "()" ELSE "(x,)"

\* caller c calls hello.hello with n arguments: a METH_NOARGS function is
\* rejected with TypeError when n # 0 and is otherwise entered with
\* self = the module and args = NULL
Call(c, n) ==
    /\ pc[c] = "ready"
    /\ TotalCalls < MaxCalls
    /\ module # NoModule
    /\ \E i \in Lookup(module, "hello") :
         LET f == module.functions[i] IN
         /\ f.ml_meth = "hello"
         /\ nargs' = [nargs EXCEPT ![c] = n]
         /\ IF f.ml_flags = METH_NOARGS /\ n # 0
            THEN /\ pc' = [pc EXCEPT ![c] = "returned"]
                 /\ err' = [err EXCEPT ![c] = "TypeError"]
                 /\ UNCHANGED <<self, args>>
            ELSE /\ pc' = [pc EXCEPT ![c] = "entered"]
                 /\ self' = [self EXCEPT ![c] = "module"]
                 /\ args' = [args EXCEPT ![c] =
                               IF f.ml_flags = METH_NOARGS THEN NULL ELSE ArgTuple(n)]
                 /\ UNCHANGED err
    /\ UNCHANGED <<globals, hostvars, res, ret, hist, heap>>

\* the function body entered directly with arbitrary parameter values
DirectCall(c, s, a) ==
    /\ pc[c] = "ready"
    /\ TotalCalls < MaxCalls
    /\ pc' = [pc EXCEPT ![c] = "entered"]
    /\ self' = [self EXCEPT ![c] = s]
    /\ args' = [args EXCEPT ![c] = a]
    /\ UNCHANGED <<globals, hostvars, nargs, res, ret, err, hist, heap>>

\* ---- hello() ------------------------------------------------------------
\* static PyObject* hello(PyObject* self, PyObject* args)
\*     { return PyUnicode_FromString("Hello World!"); }
\* variants of the string: with a trailing newline; different after the
\* first call; different when arguments are passed
hello_str_newline(s, a) ==
    <<72, 101, 108, 108, 111, 32, 87, 111, 114, 108, 100, 33, 10, 0>>
hello_str_counting(s, a) ==
    IF TotalCalls > 1 THEN <<72, 101, 108, 108, 111, 32, 97, 103, 97, 105, 110, 33, 0>>
    ELSE HelloLiteral
hello_str_args(s, a) ==
    IF a = NULL THEN HelloLiteral ELSE <<72, 101, 108, 108, 111, 32, 120, 33, 0>>

\* the C string hello hands to PyUnicode_FromString
hello_str(s, a) == HelloLiteral

\* variant of the allocation: one static object handed to every caller
hello_New_shared(c) ==
    /\ pc[c] = "entered"
    /\ heap' = [heap EXCEPT ![1] = NewCell]
    /\ res' = [res EXCEPT ![c] = 1]
    /\ pc' = [pc EXCEPT ![c] = "copy"]
    /\ UNCHANGED <<globals, hostvars, nargs, self, args, ret, err, hist>>

\* PyUnicode_FromString, allocation succeeds: a fresh str object
hello_New(c) ==
    /\ pc[c] = "entered"
    /\ \E id \in FreeIds :
         /\ heap' = [heap EXCEPT ![id] = NewCell]
         /\ res' = [res EXCEPT ![c] = id]
    /\ pc' = [pc EXCEPT ![c] = "copy"]
    /\ UNCHANGED <<globals, hostvars, nargs, self, args, ret, err, hist>>

\* PyUnicode_FromString, allocation fails: NULL with MemoryError set
hello_NoMemory(c) ==
    /\ pc[c] = "entered"
    /\ res' = [res EXCEPT ![c] = 0]
    /\ err' = [err EXCEPT ![c] = "MemoryError"]
    /\ pc' = [pc EXCEPT ![c] = "ret"]
    /\ UNCHANGED <<globals, hostvars, nargs, self, args, ret, hist, heap>>

\* variant of the copy: waits until no other caller is copying
hello_Copy_locked(c) ==
    /\ pc[c] = "copy"
    /\ \A o \in Callers \ {c} : pc[o] # "copy"
    /\ heap' = [heap EXCEPT ![res[c]].data = DecodeUTF8(hello_str(self[c], args[c])).cps]
    /\ pc' = [pc EXCEPT ![c] = "ret"]
    /\ UNCHANGED <<globals, hostvars, nargs, self, args, res, ret, err, hist>>

\* PyUnicode_FromString, decoding the C string into the new object
hello_Copy(c) ==
    /\ pc[c] = "copy"
    /\ LET d == DecodeUTF8(hello_str(self[c], args[c])) IN
       IF d.ok
       THEN /\ heap' = [heap EXCEPT ![res[c]].data = d.cps]
            /\ UNCHANGED <<res, err>>
       ELSE /\ heap' = Py_DECREF(heap, res[c])
            /\ res' = [res EXCEPT ![c] = 0]
            /\ err' = [err EXCEPT ![c] = "UnicodeDecodeError"]
    /\ pc' = [pc EXCEPT ![c] = "ret"]
    /\ UNCHANGED <<globals, hostvars, nargs, self, args, ret, hist>>

\* variants of the return: the function keeps a reference of its own to the
\* string; the function clears the error before it returns NULL
hello_return_cached(c) ==
    /\ pc[c] = "ret"
    /\ ret' = [ret EXCEPT ![c] = res[c]]
    /\ heap' = IF res[c] # 0 THEN [heap EXCEPT ![res[c]].ob_refcnt = @ + 1] ELSE heap
    /\ pc' = [pc EXCEPT ![c] = "returned"]
    /\ UNCHANGED <<globals, hostvars, nargs, self, args, res, err, hist>>
hello_return_swallow(c) ==
    /\ pc[c] = "ret"
    /\ ret' = [ret EXCEPT ![c] = res[c]]
    /\ err' = [err EXCEPT ![c] = "none"]
    /\ pc' = [pc EXCEPT ![c] = "returned"]
    /\ UNCHANGED <<globals, hostvars, nargs, self, args, res, hist, heap>>

\* the return statement: the result of PyUnicode_FromString goes to the caller
hello_return(c) ==
    /\ pc[c] = "ret"
    /\ ret' = [ret EXCEPT ![c] = res[c]]
    /\ pc' = [pc EXCEPT ![c] = "returned"]
    /\ UNCHANGED <<globals, hostvars, nargs, self, args, res, err, hist, heap>>

\* ---- caller: consuming the result ----------------------------------------
Outcome(c) ==
    [ok |-> ret[c] # 0,
     value |-> IF ret[c] # 0 THEN heap[ret[c]].data ELSE <<>>,
     err |-> err[c], nargs |-> nargs[c], self |-> self[c], args |-> args[c]]

\* the caller notes what it got, drops its reference and clears the error
Release(c) ==
    /\ pc[c] = "returned"
    /\ hist' = [hist EXCEPT ![c] = Append(@, Outcome(c))]
    /\ heap' = IF ret[c] # 0 THEN Py_DECREF(heap, ret[c]) ELSE heap
    /\ res' = [res EXCEPT ![c] = 0]
    /\ ret' = [ret EXCEPT ![c] = 0]
    /\ err' = [err EXCEPT ![c] = "none"]
    /\ nargs' = [nargs EXCEPT ![c] = 0]
    /\ self' = [self EXCEPT ![c] = NULL]
    /\ args' = [args EXCEPT ![c] = NULL]
    /\ pc' = [pc EXCEPT ![c] = "ready"]
    /\ UNCHANGED <<globals, hostvars>>

\* ---- specifications -----------------------------------------------------
Init ==
    /\ HelloMethods = HelloMethodsInit
    /\ hellomodule = hellomoduleInit
    /\ module = NoModule
    /\ created = NoModule
    /\ initRet = NoModule
    /\ nInits = 0
    /\ pc = [c \in Callers |-> "ready"]
    /\ nargs = [c \in Callers |-> 0]
    /\ self = [c \in Callers |-> NULL]
    /\ args = [c \in Callers |-> NULL]
    /\ res = [c \in Callers |-> 0]
    /\ ret = [c \in Callers |-> 0]
    /\ err = [c \in Callers |-> "none"]
    /\ hist = [c \in Callers |-> <<>>]
    /\ heap = [i \in ObjIds |-> FreeCell]

hello(c) == hello_New(c) \/ hello_NoMemory(c) \/ hello_Copy(c) \/ hello_return(c)

Next ==
    \/ PyInit_hello
    \/ \E c \in Callers, n \in 0..MaxArgs : Call(c, n)
    \/ \E c \in Callers : hello_New(c)
    \/ \E c \in Callers : hello_NoMemory(c)
    \/ \E c \in Callers : hello_Copy(c)
    \/ \E c \in Callers : hello_return(c)
    \/ \E c \in Callers : Release(c)

Spec == Init /\ [][Next]_vars

\* hello's body reached with any self and args, to compare runs that differ
\* only in the parameters
SelfValues == {NULL, "module"}
ArgValues == {NULL, "()", "(x,)"}

NextBody ==
    \/ \E c \in Callers, s \in SelfValues, a \in ArgValues : DirectCall(c, s, a)
    \/ \E c \in Callers : hello_New(c)
    \/ \E c \in Callers : hello_NoMemory(c)
    \/ \E c \in Callers : hello_Copy(c)
    \/ \E c \in Callers : hello_return(c)
    \/ \E c \in Callers : Release(c)

SpecBody == Init /\ [][NextBody]_vars

\* the state after one successful PyInit_hello, before any call
InitLoaded ==
    LET r == PyModule_Create(hellomoduleInit, TRUE) IN
    /\ HelloMethods = HelloMethodsInit
    /\ hellomodule = r.def
    /\ module = r.m
    /\ created = r.m
    /\ initRet = r.m
    /\ nInits = 1
    /\ pc = [c \in Callers |-> "ready"]
    /\ nargs = [c \in Callers |-> 0]
    /\ self = [c \in Callers |-> NULL]
    /\ args = [c \in Callers |-> NULL]
    /\ res = [c \in Callers |-> 0]
    /\ ret = [c \in Callers |-> 0]
    /\ err = [c \in Callers |-> "none"]
    /\ hist = [c \in Callers |-> <<>>]
    /\ heap = [i \in ObjIds |-> FreeCell]

\* the calls made through the loaded module
NextCalls ==
    \/ \E c \in Callers, n \in 0..MaxArgs : Call(c, n)
    \/ \E c \in Callers : hello_New(c)
    \/ \E c \in Callers : hello_NoMemory(c)
    \/ \E c \in Callers : hello_Copy(c)
    \/ \E c \in Callers : hello_return(c)
    \/ \E c \in Callers : Release(c)

\* the scheduling of threads is fair to each step of a running invocation;
\* nothing obliges a caller to start a call or to let go of a result
FairSpec == InitLoaded /\ [][NextCalls]_vars /\ \A c \in Callers : WF_vars(hello(c))

\* ---- properties ---------------------------------------------------------
\* the characters of "Hello World!"
Greeting == <<72, 101, 108, 108, 111, 32, 87, 111, 114, 108, 100, 33>>

InBody == {"entered", "copy", "ret"}
\* the outcome a caller is holding, and every outcome recorded so far
Held == {Outcome(c) : c \in {x \in Callers : pc[x] = "returned"}}
Past == UNION {{hist[c][k] : k \in 1..Len(hist[c])} : c \in Callers}
AllOutcomes == Held \cup Past

\* C1: every invocation of hello() that completes without an allocation
\* failure returns exactly the 12 characters "Hello World!", with no trailing
\* newline, whatever the number of earlier invocations.
C1_ReturnsGreeting ==
    \A o \in AllOutcomes :
        o.err \notin {"MemoryError", "TypeError"} =>
            /\ o.ok
            /\ o.value = Greeting
            /\ Len(o.value) = 12
            /\ o.value[Len(o.value)] # 10

C1_Witness ==
    \E c \in Callers :
        /\ Len(hist[c]) >= 1
        /\ pc[c] = "returned"
        /\ ret[c] # 0
        /\ heap[ret[c]].data = Greeting

\* C2: with concurrent callers, under every interleaving, no caller gets a
\* result other than "Hello World!", and no two callers ever hold the same
\* object: the object a caller is writing or has received is referenced by
\* that caller alone.
C2_ConcurrentSafe ==
    /\ \A c \in Callers :
         (pc[c] = "returned" /\ ret[c] # 0) => heap[ret[c]].data = Greeting
    /\ \A c1, c2 \in Callers :
         (c1 # c2 /\ pc[c1] \in {"copy", "ret", "returned"} /\ res[c1] # 0
          /\ pc[c2] \in {"copy", "ret", "returned"}) => res[c2] # res[c1]
    /\ \A c \in Callers :
         (pc[c] \in {"copy", "ret", "returned"} /\ res[c] # 0)
             => heap[res[c]].ob_refcnt = 1

C2_Witness ==
    \E c1, c2 \in Callers :
        /\ c1 # c2
        /\ pc[c1] = "copy"
        /\ pc[c2] \in {"copy", "ret", "returned"}
        /\ res[c2] # 0

\* C3: N calls in sequence give N identical results, whatever calls came
\* before, and a call leaves nothing behind for the next one: once no call is
\* in flight the heap holds no object of an earlier call.
C3_Idempotent ==
    /\ \A o1, o2 \in AllOutcomes : (o1.ok /\ o2.ok) => o1.value = o2.value
    /\ (\A c \in Callers : pc[c] = "ready")
           => \A i \in ObjIds : heap[i] = FreeCell

C3_Witness ==
    \E c \in Callers :
        /\ Len(hist[c]) >= 2
        /\ hist[c][1].ok
        /\ hist[c][2].ok
        /\ pc[c] = "ready"

\* C4: a step of hello() leaves the method table, the module definition and
\* the module object unchanged; the object it returns was free when it was
\* allocated, and on return it carries exactly one reference, the caller's.
C4_NoSideEffect ==
    [][\A c \in Callers :
         (pc[c] \in InBody /\ pc'[c] # pc[c]) =>
            /\ UNCHANGED <<HelloMethods, hellomodule, module, created, initRet>>
            /\ (pc'[c] = "copy" => heap[res'[c]].ob_refcnt = 0)
            /\ (pc'[c] = "returned" /\ ret'[c] # 0
                  => heap'[ret'[c]].ob_refcnt = 1)]_vars

C4_Witness ==
    \E c \in Callers :
        /\ pc[c] = "returned"
        /\ ret[c] # 0
        /\ heap[ret[c]].ob_refcnt = 1
        /\ hellomodule.m_name = "hello"

\* C5: allocation failure is the only failure of hello(): the error arises
\* only at the allocation, hello() then returns NULL at once (no retry), and
\* the return statement hands on the allocation's result and leaves the error
\* indicator as it found it.
C5_FailurePropagates ==
    [][\A c \in Callers :
         /\ err'[c] \in {"none", "MemoryError", "TypeError"}
         /\ (err'[c] = "TypeError" => nargs'[c] # 0 /\ pc'[c] = "returned")
         /\ (err[c] # "MemoryError" /\ err'[c] = "MemoryError"
               => pc[c] = "entered" /\ pc'[c] = "ret" /\ res'[c] = 0)
         /\ (pc[c] = "ret" => pc'[c] \in {"ret", "returned"})
         /\ (pc[c] = "ret" /\ pc'[c] = "returned"
               => /\ ret'[c] = res[c]
                  /\ err'[c] = err[c]
                  /\ (ret'[c] = 0 <=> err'[c] = "MemoryError"))]_vars

C5_Witness ==
    \E c \in Callers :
        pc[c] = "returned" /\ ret[c] = 0 /\ err[c] = "MemoryError"

\* C6: the module named "hello" has exactly one function, named "hello",
\* bound to hello with METH_NOARGS; a call with no argument is never rejected
\* by the host and reaches the body (it returns the string unless the
\* allocation fails), and a call with arguments is rejected with TypeError
\* without the body running.
C6_Registration ==
    /\ module # NoModule =>
         /\ module.md_name = "hello"
         /\ Len(module.functions) = 1
         /\ module.functions[1].ml_name = "hello"
         /\ module.functions[1].ml_meth = "hello"
         /\ module.functions[1].ml_flags = METH_NOARGS
    /\ \A c \in Callers :
         /\ nargs[c] # 0 => pc[c] = "returned" /\ err[c] = "TypeError" /\ ret[c] = 0
         /\ pc[c] \in InBody => nargs[c] = 0 /\ args[c] = NULL /\ self[c] = "module"
    /\ \A o \in AllOutcomes :
         /\ o.nargs = 0 => o.err # "TypeError" /\ (o.ok \/ o.err = "MemoryError")
         /\ o.nargs # 0 => ~o.ok /\ o.err = "TypeError"

C6_Witness ==
    \E c1, c2 \in Callers :
        /\ \E k \in 1..Len(hist[c1]) : hist[c1][k].nargs # 0 /\ hist[c1][k].err = "TypeError"
        /\ pc[c2] = "returned" /\ nargs[c2] = 0 /\ ret[c2] # 0

\* C7: hello() ignores its parameters: any two invocations that return a
\* string return the same one, whatever self and args each was given.
C7_IgnoresArguments ==
    \A o1, o2 \in AllOutcomes :
        (o1.ok /\ o2.ok /\ (o1.self # o2.self \/ o1.args # o2.args))
            => o1.value = o2.value

C7_Witness ==
    \E o1, o2 \in AllOutcomes :
        /\ o1.ok /\ o2.ok
        /\ o1.self # o2.self
        /\ o1.args # o2.args
        /\ o1.args # NULL

\* C8: an invocation that has started always has a step it can take, whatever
\* the other callers are doing, and eventually returns; a ready caller can
\* start an invocation whatever the others are doing.
C8_Returns ==
    /\ [](\A c \in Callers :
            /\ pc[c] \in InBody => ENABLED hello(c)
            /\ (pc[c] = "ready" /\ module # NoModule /\ TotalCalls < MaxCalls)
                  => ENABLED Call(c, 0))
    /\ \A c \in Callers : (pc[c] \in InBody) ~> (pc[c] = "returned")

C8_Witness ==
    \E c1, c2 \in Callers :
        /\ c1 # c2
        /\ pc[c1] = "ready" /\ Len(hist[c1]) >= 1
        /\ pc[c2] \in InBody

\* C9: PyInit_hello returns what PyModule_Create returned, NULL included; a
\* body of hello() runs only when an initialisation has succeeded; no
\* initialisation changes the method table or the declared fields of the
\* module definition, and a repeated one changes nothing of either.
C9_Init ==
    [][/\ initRet' = created'
       /\ (\A c \in Callers : pc'[c] \in InBody => module' # NoModule)
       /\ (nInits' # nInits =>
             /\ HelloMethods' = HelloMethods
             /\ hellomodule'.m_name = hellomodule.m_name
             /\ hellomodule'.m_doc = hellomodule.m_doc
             /\ hellomodule'.m_size = hellomodule.m_size
             /\ hellomodule'.m_methods = hellomodule.m_methods
             /\ (module' = module \/ module' = initRet')
             /\ (nInits >= 1 => hellomodule' = hellomodule))]_vars

C9_Witness ==
    /\ nInits >= 2
    /\ created = NoModule
    /\ initRet = NoModule
    /\ module # NoModule
    /\ \E c \in Callers : pc[c] \in InBody

====
